---- MODULE Spec2Model ----
(***************************************************************************)
(* Tenant resolution and connection routing of the api-sdk database        *)
(* module: PrimaryDatabaseService (registry lookup + resolution cache),    *)
(* TenantContextService (request-scoped tenant context),                   *)
(* TenantDatabaseService (tenant connection pools) and the two             *)
(* interceptors that establish the context (HTTP and RPC).                 *)
(*                                                                         *)
(* Time is a discrete clock `now`; one tick stands for an arbitrary        *)
(* stretch of wall-clock time and CacheTTL is connectionCacheTTL counted   *)
(* in ticks.  A one-shot timer fires at its deadline, before the clock     *)
(* moves past it.                                                          *)
(***************************************************************************)
EXTENDS Integers, FiniteSets, Sequences, TLC

\* ---------------------------------------------------------------- bounds
MaxUnits == 2            \* unit-of-work slots that run concurrently
MaxRequests == 3         \* requests/messages started over a behaviour
MaxTime == 4             \* last clock value
CacheTTL == 2            \* options.connectionCacheTTL, in ticks
MaxRegistryChanges == 1  \* upstream changes of registry rows
MaxPools == 2            \* pg pools constructed over a behaviour
MaxClears == 1           \* clearTenantCache / clearAllCaches calls
MaxSweeps == 2           \* sweeps started over a behaviour
MaxApiCalls == 2         \* context calls made by handler code over a behaviour

\* ------------------------------------------------------------- universes
Units == 1..MaxUnits
TenantIds == {"t1", "t2"}
Subdomains == {"acme", "beta", "corp"}
Undefined == "undefined"          \* JS undefined (also: not assigned yet)
Null == "null"                    \* JS null
NoTenant == [id |-> Undefined]    \* an unset TenantInfo reference
NullInfo == [id |-> Null]         \* getTenantInfo's null result
RESERVED == "cloud"               \* platform-admin identifier
Identifiers == TenantIds \cup Subdomains \cup {RESERVED}
Statuses == {"ACTIVE", "SUSPENDED"}

VARIABLES
  now,                \* Date.now(), in ticks
  registry,           \* tenants left-joined with tenant_database_configs, by tenant id
  regChanges,         \* number of upstream row changes so far
  tenantConfigCache,  \* PrimaryDatabaseService.tenantConfigCache: key -> TenantInfo
  timers,             \* pending setTimeout callbacks of cacheInfo
  pc,                 \* position of each unit of work
  kind,               \* "http" or "rpc"
  ident,              \* tenant identifier carried by the HTTP request
  tenantInfo,         \* TenantContextService.tenantInfo of each context instance
  outcome,            \* what the caller of the unit of work observes
  handlerRan,         \* next.handle() was invoked for the unit
  clients,            \* TenantDatabaseService.clients of each service instance
  clientLastUsed,     \* TenantDatabaseService.clientLastUsed of each instance
  pools,              \* every pg Pool constructed so far: id -> record
  started,            \* requests/messages started so far
  clears,             \* invalidation calls made so far
  sweep,              \* service instance -> its cleanupIdleConnections run, if any
  sweeps,             \* sweeps started so far
  cleanupInterval,    \* service instance -> its setInterval timer is armed
  shutdown,           \* service instance -> its onModuleDestroy run
  endCalls,           \* pool id -> number of pool.end() calls made on it
  apiCall,            \* the latest TenantContextService call made by handler code
  apiCalls,           \* such calls made so far
  guard,              \* unit -> endpoint metadata and token seen by VrittiAuthGuard
  thrown,             \* the value last passed to HttpExceptionFilter.catch
  reply,              \* what that call set and sent on the FastifyReply
  \* ---- history variables (observations, never read by the program)
  storedAt,           \* key -> time at which cacheInfo stored the entry now under it
  fetchedAt,          \* unit -> time its descriptor came back from the registry, -1 if none;
                      \* forgotten at an invalidation and once the TTL window has passed
  nullFor,            \* identifiers answered null while not cached, nothing stored since
  cleared,            \* the descriptor the latest clearTenantCache call matched
  cacheHit,           \* unit -> its getTenantInfo call was answered from the cache
  setBy,              \* unit -> descriptor the unit passed to setTenant
  resolved,           \* unit -> the descriptor its interceptor obtained: what getTenantInfo
                      \* returned, or the payload.tenant it passed to setTenant
  lastGot,            \* unit -> descriptor its latest getTenant() returned
  lastRead            \* unit -> result of its latest drizzleClient read

vars == <<now, registry, regChanges, tenantConfigCache, timers, pc, kind, ident,
          tenantInfo, outcome, handlerRan, clients, clientLastUsed, pools,
          started, clears, storedAt, fetchedAt, nullFor, cleared, cacheHit,
          setBy, resolved, lastGot, lastRead, sweep, sweeps, cleanupInterval,
          shutdown, endCalls, apiCall, apiCalls, thrown, reply, guard>>

\* --------------------------------------------------------------- helpers
\* a finite map is a function on a subset of its key universe
Put(m, k, v) == [x \in (DOMAIN m) \cup {k} |-> IF x = k THEN v ELSE m[x]]
Del(m, ks) == [x \in (DOMAIN m) \ ks |-> m[x]]
Empty == [x \in {} |-> Undefined]

\* `v || undefined`
OrUndefined(v) == IF v = Undefined \/ v = "" THEN Undefined ELSE v

\* decrypt() is a pass-through placeholder
decrypt(encrypted) == encrypted

\* ------------------------------------------------------- tenant registry
Row(sub, st, ty, sch, nm, host, usr) ==
  [subdomain |-> sub, status |-> st, dbType |-> ty, dbSchema |-> sch,
   dbName |-> nm, dbHost |-> host, dbUsername |-> usr]

InitRegistry ==
  [t \in TenantIds |->
     IF t = "t1"
       THEN Row("acme", "ACTIVE", "SHARED", "acme_schema", "shared", "h1", "app")
       ELSE Row("beta", "SUSPENDED", "DEDICATED", Undefined, "beta_db", "h2", "beta")]

\* where(or(eq(tenants.id, x), eq(tenants.subdomain, x))).limit(1)
MatchingIds(reg, x) == {t \in TenantIds : t = x \/ reg[t].subdomain = x}
QueryResult(reg, x) ==
  IF MatchingIds(reg, x) = {} THEN Undefined
  ELSE CHOOSE t \in MatchingIds(reg, x) : TRUE

\* the TenantInfo object getTenantInfo builds from a joined row
BuildInfo(t, row) ==
  [id |-> t,
   subdomain |-> row.subdomain,
   type |-> row.dbType,
   status |-> row.status,
   schemaName |-> OrUndefined(row.dbSchema),
   databaseName |-> OrUndefined(row.dbName),
   databaseHost |-> OrUndefined(row.dbHost),
   databaseUsername |-> IF row.dbUsername # Undefined
                          THEN decrypt(row.dbUsername) ELSE Undefined]


\* ------------------------------------------------- PrimaryDatabaseService
\* (the status check left out: every row found is turned into a descriptor)
IsActive_any(status) == TRUE

\* `if (tenant.status !== 'ACTIVE') return null`
IsActive(status) == status = "ACTIVE"

\* the keys cacheInfo stores an info under, and its timer later deletes
CacheKeys(info) == {info.id, info.subdomain}

\* (a timer armed one time unit too long)
TimerDeadline_late(t) == t + CacheTTL + 1

\* setTimeout(..., this.cacheTTL) armed at time t
TimerDeadline(t) == t + CacheTTL

\* tenantConfigCache after cacheInfo(info)
CacheInfoMap(cache, info) ==
  [x \in (DOMAIN cache) \cup CacheKeys(info) |->
     IF x \in CacheKeys(info) THEN info ELSE cache[x]]

\* the one-shot timer cacheInfo arms; it remembers the keys, not the entry
CacheInfoTimer(info, t) ==
  [deadline |-> TimerDeadline(t), id |-> info.id, subdomain |-> info.subdomain]

\* (an expiry that deletes the id key only)
TimerKeys_idOnly(tm) == {tm.id}

\* keys deleted when a timer fires
TimerKeys(tm) == {tm.id, tm.subdomain}

\* (an invalidation that deletes the given key only)
ClearKeys_givenKeyOnly(cache, x) == {x} \cap DOMAIN cache

\* keys deleted by clearTenantCache(x): both keys of the entry found under x
ClearKeys(cache, x) ==
  IF x \in DOMAIN cache THEN {cache[x].id, cache[x].subdomain} ELSE {}

\* (a negative result remembered under the identifier that was asked for)
NullResultCache_negative(cache, x) ==
  Put(cache, x, [id |-> x, subdomain |-> x, type |-> Undefined,
                 status |-> "NOT_FOUND", schemaName |-> Undefined,
                 databaseName |-> Undefined, databaseHost |-> Undefined,
                 databaseUsername |-> Undefined])

\* tenantConfigCache after getTenantInfo(x) found no ACTIVE row: unchanged
NullResultCache(cache, x) == cache

\* what the registry query of getTenantInfo(x) yields: an info or null
ResolveMiss(reg, x) ==
  LET t == QueryResult(reg, x) IN
    IF t = Undefined THEN NullInfo
    ELSE IF ~IsActive(reg[t].status) THEN NullInfo
    ELSE BuildInfo(t, reg[t])

\* ---------------------------------------------------- request-scoped DI
\* (a context registered as a singleton: every unit gets the same instance)
ContextOf_singleton(u) == 1

\* TenantContextService is Scope.REQUEST: one instance per unit of work
ContextOf(u) == u

\* TenantDatabaseService injects the request-scoped context, so the
\* container instantiates it per unit of work as well (the scope bubbles
\* up the injection chain): each unit has its own clients map
DbServiceOf(u) == u

\* ------------------------------------------------- TenantDatabaseService
\* `${tenant.type}:${tenant.databaseName}@${tenant.databaseHost}`
buildCacheKey(tenant) == <<tenant.type, tenant.databaseName, tenant.databaseHost>>

\* buildTenantDbUrl throws when host, name or username is missing
HasDbConfig(tenant) ==
  /\ tenant.databaseHost # Undefined
  /\ tenant.databaseName # Undefined
  /\ tenant.databaseUsername # Undefined

\* results of a drizzleClient read: a handle onto a pool, or an exception
Handle(id) == [pool |-> id, error |-> Undefined]
Threw(msg) == [pool |-> 0, error |-> msg]
NoRead == [pool |-> 0, error |-> Undefined]

\* ------------------------------------------------------------------ Init
\* descriptors a message producer may put into payload.tenant: those of the
\* registry rows, and further ones that exercise the cache key
SharedSameDb ==      \* a second SHARED tenant in the database of t1
  BuildInfo("t2", Row("beta", "ACTIVE", "SHARED", "beta_schema", "shared", "h1", "app"))
SchemaOnly ==        \* a SHARED tenant without a tenant_database_configs row
  BuildInfo("t1", Row("acme", "ACTIVE", "SHARED", "acme_schema", Undefined, Undefined, Undefined))
DedicatedSameDb ==   \* a second DEDICATED tenant on the host and database name of t2
  BuildInfo("t1", Row("acme", "ACTIVE", "DEDICATED", Undefined, "beta_db", "h2", "acme"))
Payloads ==
  {BuildInfo(t, [InitRegistry[t] EXCEPT !.status = s]) : t \in TenantIds, s \in Statuses}
    \cup {SharedSameDb, SchemaOnly, DedicatedSameDb}

\* no run of cleanupIdleConnections / onModuleDestroy / no handler call yet
\* the value of exception.getResponse(): shape is "object", "string" or
\* "other"; an absent key is Undefined (for errors and message: has... FALSE)
Response(shape, type, label, detail, hasErrors, errors, hasMessage, isArray, items) ==
  [shape |-> shape, type |-> type, label |-> label, detail |-> detail,
   hasErrors |-> hasErrors, errors |-> errors,
   hasMessage |-> hasMessage, isArray |-> isArray, items |-> items]
NoResponse ==
  Response("other", Undefined, Undefined, Undefined, FALSE, <<>>, FALSE, FALSE, <<>>)

\* a thrown value: http says whether isHttpException accepts it
Thrown(http, isError, status, message, response) ==
  [http |-> http, isError |-> isError, status |-> status, message |-> message,
   response |-> response]

\* canActivate has not run for the unit
NoGuard == [isPublic |-> FALSE, isOnboarding |-> FALSE, token |-> Undefined,
            lookup |-> "none"]

\* nothing caught, nothing sent yet
NoThrown == Thrown(FALSE, FALSE, 0, Undefined, NoResponse)
NoReply ==
  [status |-> 0, contentType |-> Undefined,
   body |-> [type |-> Undefined, title |-> <<>>, status |-> 0,
             label |-> Undefined, detail |-> <<>>, instance |-> Undefined,
             errors |-> <<>>]]

NoSweep == [pc |-> "idle", at |-> 0, cur |-> 0, curKey |-> Undefined,
            ended |-> {}, missed |-> FALSE, failed |-> {}, rejected |-> FALSE]
NoShutdown == [pc |-> "running", pending |-> {}, failed |-> {}]
NoCall == [unit |-> 0, op |-> Undefined, value |-> NoTenant, text |-> Undefined,
           error |-> Undefined, before |-> NoTenant]

InitWith(reg) ==
  /\ now = 0
  /\ registry = reg
  /\ regChanges = 0
  /\ tenantConfigCache = Empty
  /\ timers = {}
  /\ pc = [u \in Units |-> "idle"]
  /\ kind = [u \in Units |-> Undefined]
  /\ ident = [u \in Units |-> Undefined]
  /\ tenantInfo = [u \in Units |-> NoTenant]
  /\ outcome = [u \in Units |-> Undefined]
  /\ handlerRan = [u \in Units |-> FALSE]
  /\ clients = [u \in Units |-> Empty]
  /\ clientLastUsed = [u \in Units |-> Empty]
  /\ pools = Empty
  /\ started = 0
  /\ clears = 0
  /\ cleared = NoTenant
  /\ sweep = [s \in Units |-> NoSweep]
  /\ sweeps = 0
  /\ cleanupInterval = [s \in Units |-> TRUE]
  /\ shutdown = [s \in Units |-> NoShutdown]
  /\ endCalls = [p \in 1..MaxPools |-> 0]
  /\ apiCall = NoCall
  /\ apiCalls = 0
  /\ guard = [u \in Units |-> NoGuard]
  /\ thrown = NoThrown
  /\ reply = NoReply
  /\ cacheHit = [u \in Units |-> FALSE]
  /\ storedAt = Empty
  /\ fetchedAt = [u \in Units |-> -1]
  /\ nullFor = {}
  /\ setBy = [u \in Units |-> NoTenant]
  /\ resolved = [u \in Units |-> NoTenant]
  /\ lastGot = [u \in Units |-> NoTenant]
  /\ lastRead = [u \in Units |-> NoRead]

Init == InitWith(InitRegistry)

\* registries with unique ids and subdomains whose rows differ in status
StableRegistries ==
  {[t \in TenantIds |-> [InitRegistry[t] EXCEPT !.status = st[t]]] :
     st \in [TenantIds -> Statuses]}

InitStable == \E reg \in StableRegistries : InitWith(reg)


\* ------------------------------------------------------ variable groups
unitVars == <<pc, kind, ident, tenantInfo, outcome, handlerRan, setBy, resolved, cacheHit>>
cacheVars == <<tenantConfigCache, timers, storedAt>>
poolVars == <<clients, clientLastUsed, pools, lastGot, lastRead>>
lifeVars == <<sweep, sweeps, cleanupInterval, shutdown, endCalls>>
apiVars == <<apiCall, apiCalls>>
filterVars == <<thrown, reply>>
guardVars == <<guard>>
envVars == <<now, registry, regChanges>>
histVars == <<fetchedAt, nullFor>>
clearVars == <<clears, cleared>>

UNAUTH_NO_IDENT == "Unauthorized: Tenant identifier not found in request"
UNAUTH_INVALID == "Unauthorized: Invalid tenant"
UNAUTH_INACTIVE == "Unauthorized: Tenant is <status>"
UNAUTH_NO_CONTEXT == "Unauthorized: Tenant context not set"
ERR_ALREADY_SET == "Error: Tenant context already set for this request"
ISE_RESOLVE == "InternalServerError: Failed to resolve tenant"
ISE_CONNECT == "InternalServerError: Failed to connect to tenant database"

\* ------------------------------------------------- TenantContextInterceptor
\* the interceptor throws: the handler is not invoked, the context untouched
Reject(u, msg) ==
  /\ pc' = [pc EXCEPT ![u] = "failed"]
  /\ outcome' = [outcome EXCEPT ![u] = msg]
  /\ UNCHANGED <<tenantInfo, handlerRan, setBy>>

\* return next.handle() without establishing a tenant context
PassThrough(u) ==
  /\ pc' = [pc EXCEPT ![u] = "handler"]
  /\ handlerRan' = [handlerRan EXCEPT ![u] = TRUE]
  /\ UNCHANGED <<tenantInfo, outcome, setBy>>

\* intercept() from the point where getTenantInfo has returned `info`
HttpContinue(u, info) ==
  IF info = NullInfo THEN Reject(u, UNAUTH_INVALID)
  ELSE IF info.status # "ACTIVE" THEN Reject(u, UNAUTH_INACTIVE)
  ELSE IF tenantInfo[ContextOf(u)] # NoTenant THEN Reject(u, ERR_ALREADY_SET)
  ELSE /\ tenantInfo' = [tenantInfo EXCEPT ![ContextOf(u)] = info]
       /\ setBy' = [setBy EXCEPT ![u] = info]
       /\ pc' = [pc EXCEPT ![u] = "handler"]
       /\ handlerRan' = [handlerRan EXCEPT ![u] = TRUE]
       /\ UNCHANGED outcome

\* the identifier of the platform-admin host, which has no registry row
IsReserved_never(x) == FALSE

IsReserved(x) == x = RESERVED

\* intercept() for identifier x up to its first suspension: the whole of it
\* on the paths that need no registry query
InterceptRequest(u, x, isPublic) ==
  /\ ident' = [ident EXCEPT ![u] = x]
  /\ IF x = Undefined
       THEN /\ IF isPublic THEN PassThrough(u) ELSE Reject(u, UNAUTH_NO_IDENT)
            /\ UNCHANGED <<resolved, cacheHit, nullFor>>
     ELSE IF IsReserved(x)
       THEN /\ PassThrough(u)
            /\ UNCHANGED <<resolved, cacheHit, nullFor>>
     ELSE IF x \in DOMAIN tenantConfigCache
       THEN \* cache hit: getTenantInfo returns the cached object
            /\ resolved' = [resolved EXCEPT ![u] = tenantConfigCache[x]]
            /\ cacheHit' = [cacheHit EXCEPT ![u] = TRUE]
            /\ UNCHANGED nullFor
            /\ HttpContinue(u, tenantConfigCache[x])
     ELSE \* cache miss: the registry query is issued and awaited
            /\ pc' = [pc EXCEPT ![u] = "querying"]
            /\ UNCHANGED <<resolved, cacheHit, nullFor, tenantInfo, outcome,
                           handlerRan, setBy>>

\* an HTTP request arrives at an application without the guard and
\* intercept() runs
HttpIntercept(u) ==
  /\ pc[u] = "idle"
  /\ started < MaxRequests
  /\ started' = started + 1
  /\ kind' = [kind EXCEPT ![u] = "http"]
  /\ \E x \in Identifiers \cup {Undefined}, isPublic \in BOOLEAN :
       InterceptRequest(u, x, isPublic)
  /\ UNCHANGED <<envVars, cacheVars, poolVars, clearVars, lifeVars,
                 apiVars, filterVars, guardVars, fetchedAt>>

\* getTenantInfo(x) after its registry query returned `info`: the cache
\* write of a found row, nothing for a missing one
QueryResultCached(u, x, info) ==
  IF info = NullInfo
    THEN \* `return null`: cacheInfo is not reached
         /\ tenantConfigCache' = NullResultCache(tenantConfigCache, x)
         /\ storedAt' = [k \in DOMAIN tenantConfigCache' |->
                           IF k \in DOMAIN storedAt THEN storedAt[k] ELSE now]
         /\ nullFor' = IF x \in DOMAIN tenantConfigCache
                        THEN nullFor ELSE nullFor \cup {x}
         /\ UNCHANGED fetchedAt
         /\ UNCHANGED timers
    ELSE \* cacheInfo(info)
         /\ tenantConfigCache' = CacheInfoMap(tenantConfigCache, info)
         /\ timers' = timers \cup {CacheInfoTimer(info, now)}
         /\ storedAt' = [k \in DOMAIN tenantConfigCache' |->
                           IF k \in CacheKeys(info) THEN now ELSE storedAt[k]]
         /\ nullFor' = nullFor \ CacheKeys(info)
         /\ fetchedAt' = [fetchedAt EXCEPT ![u] = now]

\* the registry query returns; getTenantInfo finishes and intercept() resumes
QueryReturn(u) ==
  /\ pc[u] = "querying"
  /\ LET x == ident[u]
         info == ResolveMiss(registry, x)
     IN /\ resolved' = [resolved EXCEPT ![u] = info]
        /\ QueryResultCached(u, x, info)
        /\ HttpContinue(u, info)
  /\ UNCHANGED <<envVars, poolVars, clearVars, lifeVars,
                 apiVars, filterVars, guardVars, kind, ident, cacheHit, started>>

\* the registry query rejects: getTenantInfo wraps the error in a 500
QueryFail(u) ==
  /\ pc[u] = "querying"
  /\ Reject(u, ISE_RESOLVE)
  /\ UNCHANGED <<envVars, cacheVars, poolVars, clearVars, lifeVars,
                 apiVars, filterVars, guardVars, histVars, kind, ident,
                 resolved, cacheHit, started>>

\* ------------------------------------------------------- VrittiAuthGuard
Tokens == {"none", "undecodable", "onboarding", "access", "expired", "unbound"}

AUTH_NO_TOKEN == "Unauthorized: Access token not found"
AUTH_FORMAT == "Unauthorized: Invalid token format"
AUTH_NEEDS_ONBOARDING == "Unauthorized: This endpoint requires an onboarding token"
AUTH_ONBOARDING_TOKEN == "Unauthorized: Onboarding tokens cannot access this endpoint"
AUTH_EXPIRED == "Unauthorized: Access token has expired"
AUTH_SESSION == "Unauthorized: Session validation failed"
AUTH_NO_IDENT == "Unauthorized: Tenant identifier not found"
AUTH_FAILED == "Unauthorized: Authentication failed"

\* validateAccessToken followed by validateRefreshTokenBinding: the message
\* of the exception thrown, Undefined when both return
TokenError(token) ==
  IF token = "expired" THEN AUTH_EXPIRED
  ELSE IF token = "unbound" THEN AUTH_SESSION
  ELSE Undefined

\* the checks of canActivate that precede tenant validation: the message of
\* the exception thrown, Undefined when the token is accepted
AuthError(isOnboarding, token) ==
  IF token = "none" THEN AUTH_NO_TOKEN
  ELSE IF token = "undecodable" THEN AUTH_FORMAT
  ELSE IF isOnboarding /\ token # "onboarding" THEN AUTH_NEEDS_ONBOARDING
  ELSE IF isOnboarding THEN Undefined
  ELSE IF token = "onboarding" THEN AUTH_ONBOARDING_TOKEN
  ELSE TokenError(token)

\* `return true`: the request goes on to the interceptors
Grant(u) ==
  /\ pc' = [pc EXCEPT ![u] = "guarded"]
  /\ UNCHANGED <<tenantInfo, outcome, handlerRan, setBy>>

\* canActivate from the point where getTenantInfo has returned `info`
GuardContinue(u, info) ==
  IF info = NullInfo THEN Reject(u, UNAUTH_INVALID)
  ELSE IF info.status # "ACTIVE" THEN Reject(u, UNAUTH_INACTIVE)
  ELSE Grant(u)

\* an HTTP request arrives and canActivate runs up to its first suspension
CanActivate(u) ==
  /\ pc[u] = "idle"
  /\ started < MaxRequests
  /\ started' = started + 1
  /\ kind' = [kind EXCEPT ![u] = "http"]
  /\ \E x \in Identifiers \cup {Undefined}, isPublic \in BOOLEAN,
        isOnboarding \in BOOLEAN, token \in Tokens :
       LET seen == [isPublic |-> isPublic, isOnboarding |-> isOnboarding,
                    token |-> token, lookup |-> "none"]
           validates == /\ ~isPublic /\ ~isOnboarding
                        /\ AuthError(isOnboarding, token) = Undefined
                        /\ x # Undefined /\ ~IsReserved(x)
       IN
       /\ ident' = [ident EXCEPT ![u] = x]
       /\ guard' = [guard EXCEPT ![u] =
                      [seen EXCEPT !.lookup =
                         IF ~validates THEN "none"
                         ELSE IF x \in DOMAIN tenantConfigCache THEN "hit"
                         ELSE "query"]]
       /\ IF isPublic THEN Grant(u)
          ELSE IF AuthError(isOnboarding, token) # Undefined
            THEN Reject(u, AuthError(isOnboarding, token))
          ELSE IF isOnboarding THEN Grant(u)
          ELSE IF x = Undefined THEN Reject(u, AUTH_NO_IDENT)
          ELSE IF IsReserved(x) THEN Grant(u)
          ELSE IF x \in DOMAIN tenantConfigCache
            THEN GuardContinue(u, tenantConfigCache[x])
          ELSE /\ pc' = [pc EXCEPT ![u] = "guard querying"]
               /\ UNCHANGED <<tenantInfo, outcome, handlerRan, setBy>>
  /\ UNCHANGED <<envVars, cacheVars, poolVars, clearVars, lifeVars,
                 apiVars, filterVars, histVars, resolved, cacheHit>>

\* the registry query of the guard returns and canActivate resumes
GuardQueryReturn(u) ==
  /\ pc[u] = "guard querying"
  /\ LET x == ident[u]
         info == ResolveMiss(registry, x)
     IN /\ QueryResultCached(u, x, info)
        /\ GuardContinue(u, info)
  /\ UNCHANGED <<envVars, poolVars, clearVars, lifeVars, apiVars, filterVars,
                 guardVars, kind, ident, resolved, cacheHit, started>>

\* the registry query of the guard rejects: getTenantInfo throws a 500,
\* which the guard replaces by an UnauthorizedException
GuardQueryFail(u) ==
  /\ pc[u] = "guard querying"
  /\ Reject(u, AUTH_FAILED)
  /\ UNCHANGED <<envVars, cacheVars, poolVars, clearVars, lifeVars,
                 apiVars, filterVars, guardVars, histVars, kind, ident,
                 resolved, cacheHit, started>>

\* the guard let the request through and intercept() runs for it
GuardedIntercept(u) ==
  /\ pc[u] = "guarded"
  /\ InterceptRequest(u, ident[u], guard[u].isPublic \/ guard[u].isOnboarding)
  /\ UNCHANGED <<envVars, cacheVars, poolVars, clearVars, lifeVars,
                 apiVars, filterVars, guardVars, fetchedAt, kind, started>>

\* ------------------------------------------ MessageTenantContextInterceptor
\* a message arrives; a setTenant failure is caught and only logged; the
\* handler is invoked in every case
RpcIntercept(u) ==
  /\ pc[u] = "idle"
  /\ started < MaxRequests
  /\ started' = started + 1
  /\ kind' = [kind EXCEPT ![u] = "rpc"]
  /\ \E contextType \in {"rpc", "http"}, tenant \in Payloads \cup {NoTenant} :
       /\ resolved' = IF contextType = "rpc" /\ tenant # NoTenant
                        THEN [resolved EXCEPT ![u] = tenant] ELSE resolved
       /\ IF contextType = "rpc" /\ tenant # NoTenant
             /\ tenantInfo[ContextOf(u)] = NoTenant
            THEN /\ tenantInfo' = [tenantInfo EXCEPT ![ContextOf(u)] = tenant]
                 /\ setBy' = [setBy EXCEPT ![u] = tenant]
            ELSE UNCHANGED <<tenantInfo, setBy>>
  /\ pc' = [pc EXCEPT ![u] = "handler"]
  /\ handlerRan' = [handlerRan EXCEPT ![u] = TRUE]
  /\ UNCHANGED <<envVars, cacheVars, poolVars, clearVars, lifeVars,
                 apiVars, filterVars, guardVars, histVars, ident,
                 outcome, cacheHit>>

\* TenantContextService is exported: a guard, a middleware or another
\* interceptor of the application that runs before the interceptor of this
\* module injects the context of the unit and calls setTenant on it
EarlierSetTenant(u) ==
  /\ pc[u] = "idle"
  /\ tenantInfo[ContextOf(u)] = NoTenant
  /\ \E t \in {d \in Payloads : d.status = "ACTIVE"} :
       /\ tenantInfo' = [tenantInfo EXCEPT ![ContextOf(u)] = t]
       /\ setBy' = [setBy EXCEPT ![u] = t]
  /\ UNCHANGED <<envVars, cacheVars, poolVars, clearVars, lifeVars, apiVars,
                 filterVars, guardVars, histVars, pc, kind, ident, outcome, handlerRan,
                 resolved, cacheHit, started>>

\* cleanupContext(): if (hasTenant()) clearTenant()
cleanupContext(ctx, c) == [ctx EXCEPT ![c] = NoTenant]

\* ------------------------------------------------- TenantDatabaseService
\* the handler reads tenantDatabase.drizzleClient
GetDbClient(u) ==
  /\ pc[u] = "handler"
  /\ LET tenant == tenantInfo[ContextOf(u)]
         svc == DbServiceOf(u)
         cacheKey == buildCacheKey(tenant)
         id == Cardinality(DOMAIN pools) + 1
     IN IF tenant = NoTenant
          THEN \* getTenant() throws
               /\ lastRead' = [lastRead EXCEPT ![u] = Threw(UNAUTH_NO_CONTEXT)]
               /\ UNCHANGED <<clients, clientLastUsed, pools, lastGot>>
        ELSE IF cacheKey \in DOMAIN clients[svc]
          THEN \* reuse the cached connection
               /\ lastGot' = [lastGot EXCEPT ![u] = tenant]
               /\ clientLastUsed' = [clientLastUsed EXCEPT
                                       ![svc] = Put(@, cacheKey, now)]
               /\ lastRead' = [lastRead EXCEPT ![u] = Handle(clients[svc][cacheKey])]
               /\ UNCHANGED <<clients, pools>>
        ELSE IF ~HasDbConfig(tenant)
          THEN \* buildTenantDbUrl throws inside createDbClientSync
               /\ lastGot' = [lastGot EXCEPT ![u] = tenant]
               /\ lastRead' = [lastRead EXCEPT ![u] = Threw(ISE_CONNECT)]
               /\ UNCHANGED <<clients, clientLastUsed, pools>>
        ELSE \* new Pool(...), registered under the cache key
               /\ id <= MaxPools
               /\ lastGot' = [lastGot EXCEPT ![u] = tenant]
               /\ pools' = Put(pools, id, [key |-> cacheKey, builtFrom |-> tenant,
                                           owner |-> svc, ended |-> FALSE])
               /\ clients' = [clients EXCEPT ![svc] = Put(@, cacheKey, id)]
               /\ clientLastUsed' = [clientLastUsed EXCEPT
                                       ![svc] = Put(@, cacheKey, now)]
               /\ lastRead' = [lastRead EXCEPT ![u] = Handle(id)]
  /\ UNCHANGED <<envVars, cacheVars, clearVars, lifeVars,
                 apiVars, filterVars, guardVars, histVars, unitVars, started>>

\* ------------------------------------------------------ end of a unit
\* the handler's observable emits/completes or errors.  On the RPC path the
\* tap() callbacks run cleanupContext; the HTTP interceptor has no teardown.
HandlerFinish(u) ==
  /\ pc[u] = "handler"
  /\ \E result \in {"ok", "handler error"} :
       outcome' = [outcome EXCEPT ![u] = result]
  /\ pc' = [pc EXCEPT ![u] = "done"]
  /\ tenantInfo' = IF kind[u] = "rpc"
                     THEN cleanupContext(tenantInfo, ContextOf(u))
                     ELSE tenantInfo
  /\ UNCHANGED <<envVars, cacheVars, poolVars, clearVars, lifeVars,
                 apiVars, filterVars, guardVars, histVars, kind, ident,
                 handlerRan, setBy, resolved, cacheHit, started>>

\* the slot takes the next request: fresh request-scoped instances.  A slot
\* whose service instance still holds pools is not reused, so that the pools
\* of every instance stay visible.
NewRequestScope(u) ==
  /\ pc[u] \in {"done", "failed"}
  /\ clients[DbServiceOf(u)] = Empty
  /\ sweep[DbServiceOf(u)].pc = "idle"
  /\ shutdown[DbServiceOf(u)].pc = "running"
  /\ started < MaxRequests
  /\ pc' = [pc EXCEPT ![u] = "idle"]
  /\ kind' = [kind EXCEPT ![u] = Undefined]
  /\ ident' = [ident EXCEPT ![u] = Undefined]
  /\ tenantInfo' = [tenantInfo EXCEPT ![ContextOf(u)] = NoTenant]
  /\ outcome' = [outcome EXCEPT ![u] = Undefined]
  /\ handlerRan' = [handlerRan EXCEPT ![u] = FALSE]
  /\ setBy' = [setBy EXCEPT ![u] = NoTenant]
  /\ resolved' = [resolved EXCEPT ![u] = NoTenant]
  /\ cacheHit' = [cacheHit EXCEPT ![u] = FALSE]
  /\ lastGot' = [lastGot EXCEPT ![u] = NoTenant]
  /\ lastRead' = [lastRead EXCEPT ![u] = NoRead]
  /\ fetchedAt' = [fetchedAt EXCEPT ![u] = -1]
  /\ guard' = [guard EXCEPT ![u] = NoGuard]
  /\ UNCHANGED <<envVars, cacheVars, clearVars, lifeVars, apiVars, filterVars, nullFor, clients,
                 clientLastUsed, pools, started>>

\* ----------------------------------------- cache invalidation and expiry
ClearTenantCache(x) ==
  /\ clears < MaxClears
  /\ clears' = clears + 1
  /\ cleared' = IF x \in DOMAIN tenantConfigCache
                  THEN tenantConfigCache[x] ELSE NoTenant
  /\ tenantConfigCache' = Del(tenantConfigCache, ClearKeys(tenantConfigCache, x))
  /\ storedAt' = Del(storedAt, ClearKeys(tenantConfigCache, x))
  /\ fetchedAt' = [u \in Units |-> -1]
  /\ UNCHANGED <<envVars, timers, unitVars, poolVars, lifeVars, apiVars, filterVars, guardVars, nullFor,
                 started>>

ClearAllCaches ==
  /\ clears < MaxClears
  /\ clears' = clears + 1
  /\ cleared' = NoTenant
  /\ tenantConfigCache' = Empty
  /\ storedAt' = Empty
  /\ fetchedAt' = [u \in Units |-> -1]
  /\ UNCHANGED <<envVars, timers, unitVars, poolVars, lifeVars, apiVars, filterVars, guardVars, nullFor,
                 started>>

\* the setTimeout callback of cacheInfo runs
TimerFire(tm) ==
  /\ tm \in timers
  /\ tm.deadline <= now
  /\ timers' = timers \ {tm}
  /\ tenantConfigCache' = Del(tenantConfigCache, TimerKeys(tm))
  /\ storedAt' = Del(storedAt, TimerKeys(tm))
  /\ UNCHANGED <<envVars, unitVars, poolVars, clearVars, lifeVars,
                 apiVars, filterVars, guardVars, histVars, started>>

\* ------------------------------------------------------------ environment
\* time passes; due timers run before the clock moves on
Tick ==
  /\ now < MaxTime
  /\ \A tm \in timers : tm.deadline > now
  /\ now' = now + 1
  /\ fetchedAt' = [u \in Units |->
                     IF fetchedAt[u] + CacheTTL <= now + 1 THEN -1 ELSE fetchedAt[u]]
  /\ UNCHANGED <<registry, regChanges, cacheVars, unitVars, poolVars, clearVars, lifeVars,
                 apiVars, filterVars, guardVars,
                 nullFor, started>>

\* upstream: a tenant is activated or suspended
RegistrySetStatus(t) ==
  /\ regChanges < MaxRegistryChanges
  /\ regChanges' = regChanges + 1
  /\ \E s \in Statuses \ {registry[t].status} :
       registry' = [registry EXCEPT ![t].status = s]
  /\ UNCHANGED <<now, cacheVars, unitVars, poolVars, clearVars, lifeVars,
                 apiVars, filterVars, guardVars, histVars, started>>

\* upstream: a tenant gets another (unused) subdomain
RegistryRename(t) ==
  /\ regChanges < MaxRegistryChanges
  /\ regChanges' = regChanges + 1
  /\ \E sub \in Subdomains \ {registry[o].subdomain : o \in TenantIds} :
       registry' = [registry EXCEPT ![t].subdomain = sub]
  /\ UNCHANGED <<now, cacheVars, unitVars, poolVars, clearVars, lifeVars,
                 apiVars, filterVars, guardVars, histVars, started>>

\* ------------------------------------------------------ HttpExceptionFilter
\* A text is a sequence of pieces, so that what join() and the title-casing
\* of an enum key produce is computed and not assumed.
Text(str) == <<str>>

\* Array.prototype.join(', ')
RECURSIVE Join(_)
Join(items) ==
  IF items = <<>> THEN <<"">>
  ELSE IF Len(items) = 1 THEN <<items[1]>>
  ELSE <<items[1], ", ">> \o Join(Tail(items))

\* the entries of the HttpStatus enum used here: code -> words of the key
HttpStatus ==
  (400 :> <<"BAD", "REQUEST">>) @@ (401 :> <<"UNAUTHORIZED">>) @@
  (404 :> <<"NOT", "FOUND">>) @@ (422 :> <<"UNPROCESSABLE", "ENTITY">>) @@
  (500 :> <<"INTERNAL", "SERVER", "ERROR">>)

\* word.charAt(0).toUpperCase() + word.slice(1).toLowerCase()
TitleCase ==
  [w \in {"BAD", "REQUEST", "UNAUTHORIZED", "NOT", "FOUND", "UNPROCESSABLE",
          "ENTITY", "INTERNAL", "SERVER", "ERROR"} |->
     CASE w = "BAD" -> "Bad" [] w = "REQUEST" -> "Request"
       [] w = "UNAUTHORIZED" -> "Unauthorized" [] w = "NOT" -> "Not"
       [] w = "FOUND" -> "Found" [] w = "UNPROCESSABLE" -> "Unprocessable"
       [] w = "ENTITY" -> "Entity" [] w = "INTERNAL" -> "Internal"
       [] w = "SERVER" -> "Server" [] w = "ERROR" -> "Error"]

\* getHttpStatusTitle(status): the words of the title, joined by ' '
getHttpStatusTitle(status) ==
  IF status \notin DOMAIN HttpStatus THEN <<"Error">>
  ELSE [i \in 1..Len(HttpStatus[status]) |-> TitleCase[HttpStatus[status][i]]]

\* status codes an exception may carry (one of them is not in the enum)
StatusCodes == {400, 401, 404, 422, 500, 999}

\* items of a `message` array: a class-validator error object, or a string
ValidationItem(property, constraints) ==
  [isObject |-> TRUE, property |-> property, constraints |-> constraints,
   text |-> Undefined]
StringItem(str) ==
  [isObject |-> FALSE, property |-> Undefined, constraints |-> <<>>, text |-> str]
FieldError(field, message) == [field |-> field, message |-> message]

\* HttpProblemException and its subclasses
ProblemExceptions ==
  {Thrown(TRUE, TRUE, st, "problem message",
          Response("object", ty, lb, dt, he, IF he THEN er ELSE <<>>,
                   FALSE, FALSE, <<>>)) :
     st \in StatusCodes, ty \in {Undefined, "urn:problem"},
     lb \in {Undefined, "Heading"}, dt \in {Undefined, "problem detail"},
     he \in BOOLEAN, er \in {<<>>, <<FieldError("email", "Invalid email")>>}}

\* HttpExceptions whose response object has a message array
ValidationExceptions ==
  {Thrown(TRUE, TRUE, st, "Bad Request Exception",
          Response("object", Undefined, Undefined, Undefined, FALSE, <<>>,
                   TRUE, TRUE, items)) :
     st \in {400, 422},
     items \in {<<ValidationItem("username", <<"too short", "not empty">>)>>,
                <<ValidationItem("username", <<>>)>>,
                <<StringItem("email must be an email")>>,
                <<ValidationItem("age", <<"must be a number">>),
                  StringItem("unknown property")>>}}

\* HttpExceptions with a message string, a string response, or an object
\* response without any of the keys the filter looks for
StandardExceptions ==
  {Thrown(TRUE, TRUE, st, "test",
          Response("object", Undefined, Undefined, Undefined, FALSE, <<>>,
                   TRUE, FALSE, <<StringItem("test")>>)) : st \in StatusCodes}
  \cup {Thrown(TRUE, TRUE, st, "plain",
               Response("string", Undefined, Undefined, Undefined, FALSE, <<>>,
                        TRUE, FALSE, <<StringItem("plain")>>)) : st \in StatusCodes}
  \cup {Thrown(TRUE, ie, st, "odd", NoResponse) :
          st \in StatusCodes, ie \in BOOLEAN}

\* everything else: Error objects and other values, whatever they carry
\* (status 0: no status property)
UnknownErrors ==
  {Thrown(FALSE, ie, st, msg, NoResponse) :
     ie \in BOOLEAN, st \in {0} \cup StatusCodes,
     msg \in {"Something went wrong", "password=hunter2"}}

Exceptions ==
  ProblemExceptions \cup ValidationExceptions \cup StandardExceptions
    \cup UnknownErrors

\* `a ?? b`
Coalesce(a, b) == IF a = Undefined \/ a = Null THEN b ELSE a

\* the map/filter over a message array: field errors of the object items
RECURSIVE ValidationErrors(_)
ValidationErrors(items) ==
  IF items = <<>> THEN <<>>
  ELSE LET msg == Head(items)
           rest == ValidationErrors(Tail(items))
       IN IF msg.isObject
            THEN <<FieldError(msg.property,
                              IF msg.constraints = <<>> THEN "Validation failed"
                              ELSE msg.constraints[1])>> \o rest
            ELSE rest

\* (a filter that hands the error's own message to the client)
UnknownErrorDetail_ownMessage(exception) == Text(exception.message)

\* the detail written for a value that is not an HTTP exception
UnknownErrorDetail(exception) == Text("An unexpected error occurred")

\* the problem details object before `title` is added
ProblemFields(exception) ==
  LET r == exception.response
      initial == [status |-> 500, type |-> "about:blank", label |-> Undefined,
                  detail |-> Text("Internal server error"), errors |-> <<>>]
  IN IF ~exception.http
       THEN [initial EXCEPT !.detail = UnknownErrorDetail(exception)]
     ELSE IF r.shape = "object"
       THEN IF r.type # Undefined \/ r.label # Undefined \/ r.hasErrors
              THEN [status |-> exception.status,
                    type |-> Coalesce(r.type, "about:blank"),
                    label |-> r.label,
                    detail |-> IF r.detail # Undefined THEN Text(r.detail)
                               ELSE IF exception.message # Undefined
                                 THEN Text(exception.message)
                               ELSE getHttpStatusTitle(exception.status),
                    errors |-> r.errors]
            ELSE IF r.hasMessage /\ r.isArray
              THEN [initial EXCEPT !.status = exception.status,
                                   !.errors = ValidationErrors(r.items),
                                   !.detail = Text("Validation failed")]
            ELSE IF r.hasMessage
              THEN [initial EXCEPT
                      !.status = exception.status,
                      !.detail = IF r.isArray
                                   THEN Join([i \in 1..Len(r.items) |->
                                                r.items[i].text])
                                   ELSE Text(r.items[1].text)]
            ELSE [initial EXCEPT !.status = exception.status]
     ELSE IF r.shape = "string"
       THEN [initial EXCEPT !.status = exception.status,
                            !.detail = Text(r.items[1].text)]
     ELSE [initial EXCEPT !.status = exception.status]

\* HttpExceptionFilter.catch: the status and header set on the reply and the
\* body sent (a label that is not truthy is left out of the body)
catch(exception, url) ==
  LET f == ProblemFields(exception)
  IN [status |-> f.status,
      contentType |-> "application/problem+json",
      body |-> [type |-> f.type,
                title |-> getHttpStatusTitle(f.status),
                status |-> f.status,
                label |-> IF f.label = "" THEN Undefined ELSE f.label,
                detail |-> f.detail,
                instance |-> url,
                errors |-> f.errors]]

\* an exception reaches the global filter
FilterCatch ==
  /\ \E exception \in Exceptions, url \in {"/api/test"} :
       /\ thrown' = exception
       /\ reply' = catch(exception, url)
  /\ UNCHANGED <<envVars, cacheVars, unitVars, poolVars, clearVars, lifeVars,
                 apiVars, guardVars, histVars, started>>

\* ------------------------------- TenantContextService, called by handlers
\* (a setter that overwrites instead of refusing)
setTenant_overwrite(cur, t) == [ctx |-> t, error |-> Undefined]

\* setTenant(t) on a context holding cur: the new content, and what is thrown
setTenant(cur, t) ==
  IF cur # NoTenant THEN [ctx |-> cur, error |-> ERR_ALREADY_SET]
  ELSE [ctx |-> t, error |-> Undefined]

\* (a getter that hands out the empty content instead of throwing)
getTenant_nullable(cur) == [value |-> cur, error |-> Undefined]

\* getTenant(): the descriptor, or UnauthorizedException
getTenant(cur) ==
  IF cur = NoTenant THEN [value |-> NoTenant, error |-> UNAUTH_NO_CONTEXT]
  ELSE [value |-> cur, error |-> Undefined]

hasTenant(cur) == cur # NoTenant
clearTenant(cur) == NoTenant
\* `this.tenantInfo?.id ?? null`, `this.tenantInfo?.subdomain ?? null`
getTenantIdSafe(cur) == IF cur = NoTenant THEN Null ELSE cur.id
getTenantSubdomainSafe(cur) == IF cur = NoTenant THEN Null ELSE cur.subdomain

\* the record kept of a handler's call
Call(u, op, before, value, text, error) ==
  [unit |-> u, op |-> op, value |-> value, text |-> text,
   error |-> error, before |-> before]

\* handler code holding the unit's TenantContextService calls setTenant
HandlerSetTenant(u) ==
  /\ pc[u] = "handler"
  /\ apiCalls < MaxApiCalls
  /\ apiCalls' = apiCalls + 1
  /\ \E t \in Payloads :
       LET cur == tenantInfo[ContextOf(u)]
           r == setTenant(cur, t)
       IN /\ tenantInfo' = [tenantInfo EXCEPT ![ContextOf(u)] = r.ctx]
          /\ setBy' = IF r.error = Undefined
                        THEN [setBy EXCEPT ![u] = t] ELSE setBy
          /\ apiCall' = Call(u, "setTenant", cur, t, Undefined, r.error)
  /\ UNCHANGED <<envVars, cacheVars, poolVars, clearVars, lifeVars, histVars,
                 filterVars, guardVars, pc, kind, ident, outcome, handlerRan, resolved,
                 cacheHit, started>>

\* ... calls clearTenant
HandlerClearTenant(u) ==
  /\ pc[u] = "handler"
  /\ apiCalls < MaxApiCalls
  /\ apiCalls' = apiCalls + 1
  /\ LET cur == tenantInfo[ContextOf(u)]
     IN /\ tenantInfo' = [tenantInfo EXCEPT ![ContextOf(u)] = clearTenant(cur)]
        /\ apiCall' = Call(u, "clearTenant", cur, NoTenant, Undefined, Undefined)
  /\ UNCHANGED <<envVars, cacheVars, poolVars, clearVars, lifeVars, histVars,
                 filterVars, guardVars, pc, kind, ident, outcome, handlerRan, setBy, resolved,
                 cacheHit, started>>

\* ... calls one of the reading methods
HandlerRead(u) ==
  /\ pc[u] = "handler"
  /\ apiCalls < MaxApiCalls
  /\ apiCalls' = apiCalls + 1
  /\ LET cur == tenantInfo[ContextOf(u)]
     IN \/ apiCall' = Call(u, "getTenant", cur, getTenant(cur).value,
                             Undefined, getTenant(cur).error)
        \/ apiCall' = Call(u, "getTenantIdSafe", cur, NoTenant,
                             getTenantIdSafe(cur), Undefined)
        \/ apiCall' = Call(u, "getTenantSubdomainSafe", cur, NoTenant,
                             getTenantSubdomainSafe(cur), Undefined)
        \/ apiCall' = Call(u, "hasTenant", cur, NoTenant,
                             IF hasTenant(cur) THEN "true" ELSE "false", Undefined)
  /\ UNCHANGED <<envVars, cacheVars, poolVars, clearVars, lifeVars, histVars,
                 filterVars, guardVars, unitVars, started>>

\* ------------------------------ TenantDatabaseService: sweep and shutdown
\* pool.end() is invoked on the pools P
EndInvoked(P) ==
  /\ endCalls' = [p \in DOMAIN endCalls |->
                    IF p \in P THEN endCalls[p] + 1 ELSE endCalls[p]]
  /\ pools' = [p \in DOMAIN pools |->
                 IF p \in P THEN [pools[p] EXCEPT !.ended = TRUE] ELSE pools[p]]

\* `now - lastUsed > maxIdle`, with the `now` the sweep took when it started
IsIdle(at, lastUsed) == at - lastUsed > CacheTTL

\* (a loop that gives up after the first entry it closed)
ToVisit_first(cl, pos) == IF pos = 0 THEN DOMAIN cl ELSE {}

\* the entries the Map iterator has still to yield: those inserted after the
\* entry at which the loop stands (entries are inserted in the order in which
\* their pools are built)
ToVisit(cl, pos) == {k \in DOMAIN cl : cl[k] > pos}

\* the next entry of the loop that passes the idle test, if any
IdleAhead(cl, lu, pos, at) == {k \in ToVisit(cl, pos) : IsIdle(at, lu[k])}
NextToClose(cl, lu, pos, at) ==
  CHOOSE k \in IdleAhead(cl, lu, pos, at) :
    \A k2 \in IdleAhead(cl, lu, pos, at) : cl[k] <= cl[k2]

\* the entries the loop passes over before it reaches that one (or its end)
PassedOver(cl, lu, pos, at) ==
  {k \in ToVisit(cl, pos) :
     /\ ~IsIdle(at, lu[k])
     /\ \A k2 \in IdleAhead(cl, lu, pos, at) : cl[k] < cl[k2]}

\* the for-loop of cleanupIdleConnections from position pos up to its next
\* await, or to its end, over the maps cl and lu of instance s
SweepLoop(s, cl, lu, pos, at, ended, missed, failed) ==
  LET miss == missed \/ \E k \in PassedOver(cl, lu, pos, at) : IsIdle(now, lu[k])
  IN IF IdleAhead(cl, lu, pos, at) = {}
       THEN /\ sweep' = [sweep EXCEPT ![s] = [pc |-> "idle", at |-> at, cur |-> 0,
                                              curKey |-> Undefined,
                                              ended |-> ended, missed |-> miss,
                                              failed |-> failed,
                                              rejected |-> FALSE]]
            /\ UNCHANGED <<endCalls, pools>>
       ELSE LET k == NextToClose(cl, lu, pos, at)
            IN /\ sweep' = [sweep EXCEPT ![s] = [pc |-> "awaiting", at |-> at,
                                                 cur |-> cl[k], curKey |-> k,
                                                 ended |-> ended \cup {cl[k]},
                                                 missed |-> miss,
                                                 failed |-> failed,
                                                 rejected |-> FALSE]]
               /\ EndInvoked({cl[k]})

\* the interval timer of instance s fires: cleanupIdleConnections starts and
\* runs to its first await (one run per instance at a time)
SweepStart(s) ==
  /\ cleanupInterval[s]
  /\ sweep[s].pc = "idle"
  /\ sweeps < MaxSweeps
  /\ sweeps' = sweeps + 1
  /\ SweepLoop(s, clients[s], clientLastUsed[s], 0, now, {}, FALSE,
               sweep[s].failed)
  /\ UNCHANGED <<envVars, cacheVars, clearVars, histVars, unitVars, apiVars, filterVars, guardVars,
                 clients, clientLastUsed, lastGot, lastRead, cleanupInterval,
                 shutdown, started>>

\* (a loop without the try/catch around the close)
SweepCatches_none == FALSE

\* the try/catch around `await connection.pool.end()` logs the error
SweepCatches == TRUE

\* the awaited pool.end() settles, resolved or rejected.  A rejection is
\* caught and logged; in both cases the entry is deleted from both maps and
\* the loop goes on.  A rejection that nothing catches would end the run
\* there and reject the promise that the interval callback dropped.
SweepResume(s) ==
  /\ sweep[s].pc = "awaiting"
  /\ \E ok \in BOOLEAN :
       IF ok \/ SweepCatches
         THEN LET cl == Del(clients[s], {sweep[s].curKey})
                  lu == Del(clientLastUsed[s], {sweep[s].curKey})
                  failed == IF ok THEN sweep[s].failed
                            ELSE sweep[s].failed \cup {sweep[s].cur}
              IN /\ clients' = [clients EXCEPT ![s] = cl]
                 /\ clientLastUsed' = [clientLastUsed EXCEPT ![s] = lu]
                 /\ SweepLoop(s, cl, lu, sweep[s].cur, sweep[s].at,
                              sweep[s].ended, sweep[s].missed, failed)
         ELSE /\ sweep' = [sweep EXCEPT ![s].pc = "idle",
                                        ![s].failed = @ \cup {sweep[s].cur},
                                        ![s].rejected = TRUE]
              /\ UNCHANGED <<clients, clientLastUsed, endCalls, pools>>
  /\ UNCHANGED <<envVars, cacheVars, clearVars, histVars, unitVars, apiVars, filterVars, guardVars,
                 lastGot, lastRead, sweeps, cleanupInterval, shutdown, started>>

\* (a shutdown that does not wait for the closes it started)
JoinReady_fireAndForget(pending) == TRUE

\* `await Promise.all(disconnectPromises)`
JoinReady(pending) == pending = {}

\* onModuleDestroy of instance s up to the point where it waits for a
\* close: clearInterval, then pool.end() on every entry of clients.  With no
\* entry Promise.all([]) is resolved already and nothing of the program can
\* run before the method returns.
OnModuleDestroy(s) ==
  /\ shutdown[s].pc = "running"
  /\ cleanupInterval' = [cleanupInterval EXCEPT ![s] = FALSE]
  /\ LET P == {clients[s][k] : k \in DOMAIN clients[s]}
     IN /\ EndInvoked(P)
        /\ shutdown' = [shutdown EXCEPT
                          ![s] = [pc |-> IF P = {} THEN "destroyed" ELSE "closing",
                                  pending |-> P, failed |-> {}]]
  /\ UNCHANGED <<envVars, cacheVars, clearVars, histVars, unitVars, apiVars, filterVars, guardVars,
                 clients, clientLastUsed, lastGot, lastRead, sweep, sweeps, started>>

\* one of the pool.end() promises of onModuleDestroy settles; a rejection is
\* caught and logged inside its own async callback
CloseSettles(s) ==
  /\ shutdown[s].pc = "closing"
  /\ \E p \in shutdown[s].pending, ok \in BOOLEAN :
       shutdown' = [shutdown EXCEPT
                      ![s].pending = @ \ {p},
                      ![s].failed = IF ok THEN @ ELSE @ \cup {p}]
  /\ UNCHANGED <<envVars, cacheVars, clearVars, histVars, unitVars, apiVars, filterVars, guardVars,
                 poolVars, sweep, sweeps, cleanupInterval, endCalls, started>>

\* Promise.all resolves and onModuleDestroy returns
DestroyComplete(s) ==
  /\ shutdown[s].pc = "closing"
  /\ JoinReady(shutdown[s].pending)
  /\ shutdown' = [shutdown EXCEPT ![s].pc = "destroyed"]
  /\ UNCHANGED <<envVars, cacheVars, clearVars, histVars, unitVars, apiVars, filterVars, guardVars,
                 poolVars, sweep, sweeps, cleanupInterval, endCalls, started>>

Next ==
  \/ \E u \in Units : HttpIntercept(u)
  \/ \E u \in Units : QueryReturn(u)
  \/ \E u \in Units : QueryFail(u)
  \/ \E u \in Units : RpcIntercept(u)
  \/ \E u \in Units : GetDbClient(u)
  \/ \E u \in Units : HandlerFinish(u)
  \/ \E u \in Units : NewRequestScope(u)
  \/ \E x \in Identifiers : ClearTenantCache(x)
  \/ ClearAllCaches
  \/ \E tm \in timers : TimerFire(tm)
  \/ Tick
  \/ \E t \in TenantIds : RegistrySetStatus(t)
  \/ \E t \in TenantIds : RegistryRename(t)
  \/ \E u \in Units : HandlerSetTenant(u)
  \/ \E u \in Units : HandlerClearTenant(u)
  \/ \E u \in Units : HandlerRead(u)
  \/ \E s \in Units : SweepStart(s)
  \/ \E s \in Units : SweepResume(s)
  \/ \E s \in Units : OnModuleDestroy(s)
  \/ \E s \in Units : CloseSettles(s)
  \/ \E s \in Units : DestroyComplete(s)
  \/ FilterCatch
  \/ \E u \in Units : EarlierSetTenant(u)
  \/ \E u \in Units : CanActivate(u)
  \/ \E u \in Units : GuardQueryReturn(u)
  \/ \E u \in Units : GuardQueryFail(u)
  \/ \E u \in Units : GuardedIntercept(u)

Spec == Init /\ [][Next]_vars

\* the resolution layer alone: HTTP requests, the registry, the cache
NextCache ==
  \/ \E u \in Units : HttpIntercept(u)
  \/ \E u \in Units : QueryReturn(u)
  \/ \E u \in Units : QueryFail(u)
  \/ \E u \in Units : HandlerFinish(u)
  \/ \E u \in Units : NewRequestScope(u)
  \/ \E x \in Identifiers : ClearTenantCache(x)
  \/ ClearAllCaches
  \/ \E tm \in timers : TimerFire(tm)
  \/ Tick
  \/ \E t \in TenantIds : RegistrySetStatus(t)
  \/ \E t \in TenantIds : RegistryRename(t)

SpecCache == Init /\ [][NextCache]_vars

\* the units of work with their contexts and pools, on both paths
NextPool ==
  \/ \E u \in Units : HttpIntercept(u)
  \/ \E u \in Units : QueryReturn(u)
  \/ \E u \in Units : QueryFail(u)
  \/ \E u \in Units : RpcIntercept(u)
  \/ \E u \in Units : GetDbClient(u)
  \/ \E u \in Units : HandlerFinish(u)
  \/ \E u \in Units : NewRequestScope(u)
  \/ \E tm \in timers : TimerFire(tm)
  \/ Tick

SpecPool == Init /\ [][NextPool]_vars

\* units of work whose context may be set before their interceptor runs
NextChain ==
  \/ \E u \in Units : EarlierSetTenant(u)
  \/ \E u \in Units : HttpIntercept(u)
  \/ \E u \in Units : QueryReturn(u)
  \/ \E u \in Units : QueryFail(u)
  \/ \E u \in Units : RpcIntercept(u)
  \/ \E u \in Units : HandlerFinish(u)

SpecChain == Init /\ [][NextChain]_vars

\* HTTP requests behind the guard, and requests of an application that
\* installs the interceptor alone
NextGuard ==
  \/ \E u \in Units : CanActivate(u)
  \/ \E u \in Units : GuardQueryReturn(u)
  \/ \E u \in Units : GuardQueryFail(u)
  \/ \E u \in Units : GuardedIntercept(u)
  \/ \E u \in Units : HttpIntercept(u)
  \/ \E u \in Units : QueryReturn(u)
  \/ \E u \in Units : QueryFail(u)
  \/ \E u \in Units : HandlerFinish(u)

SpecGuard == Init /\ [][NextGuard]_vars

\* the resolution layer over a registry whose rows do not change
NextStable ==
  \/ \E u \in Units : HttpIntercept(u)
  \/ \E u \in Units : QueryReturn(u)
  \/ \E u \in Units : QueryFail(u)
  \/ \E u \in Units : HandlerFinish(u)
  \/ \E u \in Units : NewRequestScope(u)
  \/ \E x \in Identifiers : ClearTenantCache(x)
  \/ ClearAllCaches
  \/ \E tm \in timers : TimerFire(tm)
  \/ Tick

SpecStable == InitStable /\ [][NextStable]_vars

\* the exception filter alone
NextFilter == FilterCatch

SpecFilter == Init /\ [][NextFilter]_vars

\* the unit of work and the service instance that the two narrow
\* specifications below follow
OneUnit == {u \in Units : \A v \in Units : u <= v}

\* one unit of work after the other, and what its handler may call on the
\* context service and on the database service
NextUnit ==
  \/ \E u \in OneUnit : RpcIntercept(u)
  \/ \E u \in OneUnit : GetDbClient(u)
  \/ \E u \in OneUnit : HandlerSetTenant(u)
  \/ \E u \in OneUnit : HandlerClearTenant(u)
  \/ \E u \in OneUnit : HandlerRead(u)
  \/ \E u \in OneUnit : HandlerFinish(u)
  \/ \E u \in OneUnit : NewRequestScope(u)

SpecUnit == Init /\ [][NextUnit]_vars

\* one service instance with its pools, its sweeps and its shutdown
NextSweep ==
  \/ \E u \in OneUnit : RpcIntercept(u)
  \/ \E u \in OneUnit : GetDbClient(u)
  \/ \E u \in OneUnit : HandlerSetTenant(u)
  \/ \E u \in OneUnit : HandlerClearTenant(u)
  \/ \E s \in OneUnit : SweepStart(s)
  \/ \E s \in OneUnit : SweepResume(s)
  \/ \E s \in OneUnit : OnModuleDestroy(s)
  \/ \E s \in OneUnit : CloseSettles(s)
  \/ \E s \in OneUnit : DestroyComplete(s)
  \/ Tick

SpecSweep == Init /\ [][NextSweep]_vars

\* ======================================================================
\* Claims about the request-scoped context and the pools (SpecPool)
\* ======================================================================

\* C1 - context isolation: whatever the interleaving of the units of work,
\* a getTenant() made for a unit (inside getDbClient, when its handler reads
\* drizzleClient) returns the descriptor that this unit itself bound with
\* setTenant, never the descriptor of another unit.
C1_ContextIsolation ==
  \A u \in Units : lastGot[u] # NoTenant => lastGot[u] = setBy[u]

\* two units in flight at once, bound to different descriptors, each having
\* read its own
C1_Witness ==
  \E a, b \in Units :
    /\ a # b
    /\ pc[a] = "handler" /\ pc[b] = "handler"
    /\ setBy[a] # NoTenant /\ setBy[b] # NoTenant
    /\ setBy[a] # setBy[b]
    /\ lastGot[a] = setBy[a] /\ lastGot[b] = setBy[b]

\* C2 - pool reuse across requests: at any time at most one pool that has
\* not been closed exists per cache key, process-wide; so two reads of
\* drizzleClient for descriptors with the same cache key, by the same or by
\* different units of work, are served by the same pool.
C2_OnePoolPerKey ==
  \A p, q \in DOMAIN pools :
    (pools[p].key = pools[q].key /\ ~pools[p].ended /\ ~pools[q].ended) => p = q

\* C3 - no inactive tenants: every descriptor in the resolution cache has
\* status ACTIVE, and every pool was created for a descriptor whose status
\* is ACTIVE, on the HTTP path and on the RPC path alike.
C3_NoInactiveTenants ==
  /\ \A k \in DOMAIN tenantConfigCache : tenantConfigCache[k].status = "ACTIVE"
  /\ \A p \in DOMAIN pools : pools[p].builtFrom.status = "ACTIVE"

\* ======================================================================
\* Claims about the resolution cache (SpecCache)
\* ======================================================================

\* unit u calls getTenantInfo(x) in this step (its interceptor starts)
Calls(u, x) ==
  /\ pc[u] = "idle" /\ pc'[u] # "idle"
  /\ kind'[u] = "http" /\ ident'[u] = x

\* the registry query of unit u returns in this step
Returns(u) ==
  /\ pc[u] = "querying" /\ pc'[u] # "querying"
  /\ outcome'[u] # ISE_RESOLVE

Resolvable == Identifiers \ {RESERVED}

HasActiveRow(reg, x) == \E t \in MatchingIds(reg, x) : reg[t].status = "ACTIVE"

\* C4 - resolution idempotence: if getTenantInfo(x) returned a descriptor
\* to unit a at time fetchedAt[a], and unit b calls getTenantInfo(x) before
\* fetchedAt[a] + TTL with no clearTenantCache/clearAllCaches in between,
\* then b's call issues no registry query.  (The descriptor b is to get is
\* left out: already this half of the claim fails.)
C4_NoSecondQueryWithinTTL ==
  [][\A a, b \in Units, x \in Resolvable :
       ( /\ a # b
         /\ ident[a] = x
         /\ fetchedAt[a] >= 0
         /\ now < fetchedAt[a] + CacheTTL
         /\ Calls(b, x) )
       => pc'[b] # "querying"]_vars

\* C5 - dual-key caching: after getTenantInfo succeeded for a tenant through
\* one of the keys of its descriptor, a call with the other key, made before
\* the entry is due to expire and with no invalidation in between, is a
\* cache hit: no registry query.
C5_OtherKeyIsHit ==
  [][\A a, b \in Units, x \in Resolvable :
       ( /\ a # b
         /\ fetchedAt[a] >= 0
         /\ now < fetchedAt[a] + CacheTTL
         /\ x \in CacheKeys(resolved[a])
         /\ x # ident[a]
         /\ Calls(b, x) )
       => pc'[b] # "querying"]_vars

\* a clearTenantCache call that found an entry under the key it was given
ClearedAnEntry == clears' = clears + 1 /\ cleared' # NoTenant

\* C6 as stated - after clearTenantCache(k) with a tenant cached under k, no
\* cache key holds a descriptor of that tenant any more.
C6_NoKeyHoldsTheTenant ==
  [][ClearedAnEntry =>
       \A k \in DOMAIN tenantConfigCache' :
          tenantConfigCache'[k].id # cleared'.id]_vars

\* C6 - invalidation removes both keys: after clearTenantCache(k) with a
\* descriptor d cached under k, neither d.id nor d.subdomain is a cache key
\* any more, and a getTenantInfo call with a key that is not in the cache
\* queries the registry.  (A descriptor of the same tenant cached under an
\* earlier subdomain stays.)
C6_ClearRemovesBothKeys ==
  [][ /\ ClearedAnEntry =>
           /\ cleared'.id \notin DOMAIN tenantConfigCache'
           /\ cleared'.subdomain \notin DOMAIN tenantConfigCache'
      /\ \A u \in Units, x \in Resolvable :
           (Calls(u, x) /\ x \notin DOMAIN tenantConfigCache)
             => pc'[u] = "querying" ]_vars

\* an entry that had served a cache hit has been invalidated, both its keys
\* are gone, and a request for one of them is waiting for the registry
C6_Witness ==
  /\ cleared # NoTenant
  /\ CacheKeys(cleared) \cap DOMAIN tenantConfigCache = {}
  /\ \E a, b \in Units :
       /\ cacheHit[a] /\ resolved[a] = cleared
       /\ pc[b] = "querying"
       /\ ident[b] \in CacheKeys(cleared)

\* C7 - no negative caching: a null result leaves the cache and its timers
\* as they were; once getTenantInfo(x) has returned null (nothing being
\* cached under x then or since), the next getTenantInfo(x) queries the
\* registry; and a query that finds an ACTIVE row matching x returns that
\* row's descriptor, whatever was answered before and whatever the clock.
C7_NoNegativeCaching ==
  [][\A u \in Units :
       /\ (Returns(u) /\ resolved'[u] = NullInfo) =>
            UNCHANGED <<tenantConfigCache, timers>>
       /\ \A x \in nullFor : Calls(u, x) => pc'[u] = "querying"
       /\ (Returns(u) /\ HasActiveRow(registry, ident[u])) =>
            /\ resolved'[u] # NullInfo
            /\ resolved'[u].id \in MatchingIds(registry, ident[u])
            /\ resolved'[u] = BuildInfo(resolved'[u].id, registry[resolved'[u].id])
    ]_vars

\* an identifier was answered null, its tenant has been activated since, and
\* the next request for it is waiting for the registry
C7_Witness ==
  \E u \in Units :
    /\ pc[u] = "querying"
    /\ ident[u] \in nullFor
    /\ HasActiveRow(registry, ident[u])
    /\ ~HasActiveRow(InitRegistry, ident[u])

\* getTenantInfo completes for unit u in this step, from the cache or from
\* the registry
Completes(u) ==
  /\ pc[u] \in {"idle", "querying"}
  /\ pc'[u] \in {"handler", "failed"}
  /\ ident'[u] \in Resolvable
  /\ outcome'[u] # ISE_RESOLVE

\* null from getTenantInfo, 401 'Invalid tenant', handler not run, no context
Collapsed(u) ==
  /\ resolved'[u] = NullInfo
  /\ pc'[u] = "failed"
  /\ outcome'[u] = UNAUTH_INVALID
  /\ ~handlerRan'[u]
  /\ tenantInfo'[ContextOf(u)] = NoTenant

\* C8 as stated - every resolution of an identifier whose registry row is
\* not ACTIVE, or that has no registry row, ends in the same way.
C8_EveryResolutionCollapses ==
  [][\A u \in Units :
       (Completes(u) /\ ~HasActiveRow(registry, ident'[u])) => Collapsed(u)]_vars

\* C8 - inactive/missing collapse: a resolution that consults the registry
\* ends in the same way for an identifier whose row is not ACTIVE and for an
\* identifier without a row (null, 401 'Invalid tenant', handler not run,
\* context unset), and no request is ever answered 'Tenant is <status>'.
\* (A descriptor cached while its tenant was ACTIVE is still served from the
\* cache after the tenant has been suspended, until its entry is removed.)
C8_RegistryResolutionCollapses ==
  /\ [][\A u \in Units :
          (Completes(u) /\ pc[u] = "querying" /\ ~HasActiveRow(registry, ident[u]))
            => Collapsed(u)]_vars
  /\ [](\A u \in Units : outcome[u] # UNAUTH_INACTIVE)

\* one request for a suspended tenant and one for an unknown identifier,
\* both rejected with 'Invalid tenant'
C8_Witness ==
  \E a, b \in Units :
    /\ pc[a] = "failed" /\ pc[b] = "failed"
    /\ outcome[a] = UNAUTH_INVALID /\ outcome[b] = UNAUTH_INVALID
    /\ resolved[a] = NullInfo /\ resolved[b] = NullInfo
    /\ \E t \in MatchingIds(registry, ident[a]) : registry[t].status = "SUSPENDED"
    /\ ident[b] \in Resolvable /\ MatchingIds(registry, ident[b]) = {}

\* C9 - fixed expiry deadline: an entry stored at time storedAt[k] leaves the
\* cache before storedAt[k] + TTL only in a clearTenantCache or
\* clearAllCaches step.
C9_NoEarlyRemoval ==
  [][\A k \in DOMAIN tenantConfigCache :
       k \notin DOMAIN tenantConfigCache' =>
          \/ now >= storedAt[k] + CacheTTL
          \/ clears' # clears]_vars

\* C10 - bounded staleness, not access-based: no entry is in the cache more
\* than TTL after it was fetched, so a cache hit returns a descriptor that is
\* at most TTL old; and a hit leaves the entry, its timer and its deadline as
\* they were.
C10_BoundedStaleness ==
  /\ [](\A k \in DOMAIN tenantConfigCache : now <= storedAt[k] + CacheTTL)
  /\ [][\A u \in Units, x \in Resolvable :
          (Calls(u, x) /\ pc'[u] # "querying") =>
             /\ x \in DOMAIN tenantConfigCache
             /\ resolved'[u] = tenantConfigCache[x]
             /\ now <= storedAt[x] + CacheTTL
             /\ UNCHANGED <<tenantConfigCache, timers, storedAt>>]_vars

\* a request was served from the cache and the entry it read has been removed
\* since, by its timer
C10_Witness ==
  \E u \in Units :
    /\ cacheHit[u]
    /\ clears = 0
    /\ pc[u] = "handler"
    /\ ident[u] \notin DOMAIN tenantConfigCache

\* ======================================================================
\* Claims about idle eviction and shutdown (SpecSweep)
\* ======================================================================

\* the sweep of instance s removes its current entry from the cache in this
\* step (the awaited pool.end() has settled)
SweepRemoves(s) ==
  /\ sweep[s].pc = "awaiting"
  /\ sweep[s].curKey \in DOMAIN clients[s]
  /\ sweep[s].curKey \notin DOMAIN clients'[s]

\* C11 - the sweep never removes a recently used pool: at the moment at
\* which a sweep removes an entry from the cache, the last use of that entry
\* lies at least the idle threshold back, whatever getDbClient calls were
\* interleaved with the sweep.
C11_SweepRemovesOnlyIdle ==
  [][\A s \in Units :
       SweepRemoves(s) =>
         now - clientLastUsed[s][sweep[s].curKey] >= CacheTTL]_vars

\* the pools cached by instance s
Cached(cl) == {cl[k] : k \in DOMAIN cl}

\* a run of cleanupIdleConnections of instance s ends with this step
SweepFinishes(s) ==
  /\ sweep'[s] # sweep[s]
  /\ sweep'[s].pc = "idle"

\* C12 - idle eviction, measured against the time at which the sweep
\* started: when a run of cleanupIdleConnections finishes, pool.end() has been
\* invoked on every pool that the run found idle, none of them is in clients
\* any more, clients and clientLastUsed hold the same keys, and no entry is
\* left whose last use lies more than the idle threshold before the start
\* of the run.
C12_IdleAtSweepStartIsEvicted ==
  [][\A s \in Units :
       SweepFinishes(s) =>
         /\ \A p \in sweep'[s].ended :
              endCalls'[p] >= 1 /\ p \notin Cached(clients'[s])
         /\ DOMAIN clients'[s] = DOMAIN clientLastUsed'[s]
         /\ \A k \in DOMAIN clientLastUsed'[s] :
              ~IsIdle(sweep'[s].at, clientLastUsed'[s][k])]_vars

\* a finished run that closed and removed one pool and left in the cache
\* another one, used before the run started but within the threshold
C12_Witness ==
  \E s \in Units :
    /\ sweep[s].pc = "idle"
    /\ sweep[s].ended # {}
    /\ \A p \in sweep[s].ended : pools[p].ended /\ p \notin Cached(clients[s])
    /\ \E k \in DOMAIN clientLastUsed[s] : clientLastUsed[s][k] < sweep[s].at
    /\ shutdown[s].pc = "running"

\* C12 as stated - idleness taken at the moment at which the sweep examines
\* the entry: a finished run has passed over no entry whose last use lay
\* more than the idle threshold back when the loop came to it, and has closed
\* and removed every pool it found idle.
C12_IdleWhenExaminedIsEvicted ==
  \A s \in Units :
    sweep[s].pc = "idle" =>
      /\ ~sweep[s].missed
      /\ \A p \in sweep[s].ended :
           endCalls[p] >= 1 /\ p \notin Cached(clients[s])

\* onModuleDestroy of instance s is called in this step
DestroyCalled(s) ==
  /\ shutdown[s].pc = "running"
  /\ shutdown'[s].pc # "running"

\* onModuleDestroy of instance s returns in this step
DestroyReturns(s) ==
  /\ shutdown[s].pc # "destroyed"
  /\ shutdown'[s].pc = "destroyed"

\* C13 - shutdown joins all closes: the step in which onModuleDestroy is
\* called cancels the interval timer and invokes pool.end() on every pool
\* in clients, all of which it then waits for; from then on the timer stays
\* cancelled and no run of the sweep starts (a run already awaiting may go
\* on); and onModuleDestroy returns only when every one of those closes has
\* settled, whether it resolved or rejected.
C13_ShutdownJoinsAllCloses ==
  [][\A s \in Units :
       /\ DestroyCalled(s) =>
            /\ ~cleanupInterval'[s]
            /\ shutdown'[s].pending = Cached(clients[s])
            /\ \A p \in Cached(clients[s]) :
                 endCalls'[p] = endCalls[p] + 1 /\ pools'[p].ended
       /\ shutdown[s].pc # "running" =>
            /\ ~cleanupInterval[s] /\ ~cleanupInterval'[s]
            /\ sweep[s].pc = "idle" => sweep'[s] = sweep[s]
       /\ DestroyReturns(s) =>
            /\ shutdown[s].pending = {}
            /\ shutdown'[s].failed = shutdown[s].failed]_vars

\* a shutdown that has returned after closing two pools, one of whose closes
\* was rejected
C13_Witness ==
  \E s \in Units :
    /\ shutdown[s].pc = "destroyed"
    /\ Cardinality(Cached(clients[s])) >= 2
    /\ \A p \in Cached(clients[s]) : endCalls[p] >= 1
    /\ shutdown[s].failed # {}
    /\ shutdown[s].failed # Cached(clients[s])

\* ======================================================================
\* Claims about the cache key and pool construction
\* ======================================================================

\* the read of drizzleClient last made for unit u returned a handle
GotHandle(u) == lastRead[u].pool # 0

\* C14 - DEDICATED descriptors never collapse: a handle returned for a
\* DEDICATED descriptor is one onto a pool that was built from a descriptor
\* of the same tenant, never onto a pool built for a DEDICATED descriptor of
\* another tenant.
C14_DedicatedNeverCollapse ==
  \A u \in Units :
    (/\ GotHandle(u)
     /\ lastGot[u].type = "DEDICATED"
     /\ pools[lastRead[u].pool].builtFrom.type = "DEDICATED")
      => pools[lastRead[u].pool].builtFrom.id = lastGot[u].id

\* C15 - SHARED tenants collapse: when handles were returned for SHARED
\* descriptors of two tenants with the same databaseName and the same
\* databaseHost, the two descriptors have the same cache key and the two
\* handles are onto one and the same pool.
C15_SharedTenantsCollapse ==
  \A a, b \in Units :
    (/\ GotHandle(a) /\ GotHandle(b)
     /\ lastGot[a].type = "SHARED" /\ lastGot[b].type = "SHARED"
     /\ lastGot[a].id # lastGot[b].id
     /\ lastGot[a].databaseName = lastGot[b].databaseName
     /\ lastGot[a].databaseHost = lastGot[b].databaseHost)
      => /\ buildCacheKey(lastGot[a]) = buildCacheKey(lastGot[b])
         /\ lastRead[a].pool = lastRead[b].pool

\* an ACTIVE SHARED descriptor with a schema name and no coordinates of a
\* database of its own
IsSchemaOnly(tenant) ==
  /\ tenant # NoTenant
  /\ tenant.type = "SHARED"
  /\ tenant.status = "ACTIVE"
  /\ tenant.schemaName # Undefined
  /\ tenant.databaseHost = Undefined
  /\ tenant.databaseName = Undefined
  /\ tenant.databaseUsername = Undefined

\* C16 - a schema-only SHARED tenant can connect: a read of drizzleClient
\* made while the context holds an ACTIVE SHARED descriptor that carries a
\* schemaName and no databaseHost, databaseName or databaseUsername returns
\* a handle onto a pool and throws nothing.
C16_SchemaOnlySharedConnects ==
  \A u \in Units :
    IsSchemaOnly(lastGot[u]) =>
      GotHandle(u) /\ lastRead[u].error = Undefined

\* the hosts on which a database server accepts connections; the server of
\* the other host is down.  Nothing in createDbClientSync reads this: `new
\* Pool(...)` and `drizzle(...)` are synchronous constructors that open no
\* connection, so the try block can only catch buildTenantDbUrl's throw.
ReachableHosts == {"h1"}

\* no pool can be built for the descriptor: a coordinate is missing, or its
\* database cannot be connected to
ConstructionFails(tenant) ==
  \/ ~HasDbConfig(tenant)
  \/ tenant.databaseHost \notin ReachableHosts

\* C17 - pool construction failure is hard and leaves no trace: a read of
\* drizzleClient for a descriptor for which no pool can be built (a missing
\* coordinate, or a database that cannot be connected to) has thrown
\* InternalServerErrorException 'Failed to connect to tenant database' and
\* returned no handle, and no pool built from such a descriptor is in the
\* cache of any instance.
C17_ConstructionFailureIsHard ==
  /\ \A u \in Units :
       (lastGot[u] # NoTenant /\ ConstructionFails(lastGot[u]))
         => lastRead[u] = Threw(ISE_CONNECT)
  /\ \A s \in Units : \A p \in Cached(clients[s]) :
       ~ConstructionFails(pools[p].builtFrom)

\* ======================================================================
\* Claims about the life of the tenant context
\* ======================================================================

\* C18 - the context is cleared at the end of every unit of work: once an
\* HTTP request or an RPC message whose context was set has ended, with a
\* result or with a handler error, its context is empty (clearTenant has
\* run and hasTenant() is false).
C18_ContextClearedAtEnd ==
  \A u \in Units :
    (pc[u] = "done" /\ setBy[u] # NoTenant)
      => ~hasTenant(tenantInfo[ContextOf(u)])

\* handler code calls the method op of its TenantContextService in this step
HandlerCalls(op) ==
  /\ apiCalls' = apiCalls + 1
  /\ apiCall'.op = op

\* C19 - set-once: a setTenant call made on a context that already holds a
\* descriptor throws 'Tenant context already set for this request', and the
\* context afterwards still holds the descriptor bound earlier, which is
\* what getTenant returns.
C19_SetOnce ==
  [][HandlerCalls("setTenant") =>
       LET c == ContextOf(apiCall'.unit)
       IN tenantInfo[c] # NoTenant =>
            /\ apiCall'.error = ERR_ALREADY_SET
            /\ tenantInfo'[c] = tenantInfo[c]
            /\ getTenant(tenantInfo'[c]).value = tenantInfo[c]
            /\ getTenant(tenantInfo'[c]).error = Undefined]_vars

\* a handler has called setTenant with another descriptor on the context
\* its interceptor had set, was refused, and the context holds the first
C19_Witness ==
  /\ apiCall.op = "setTenant"
  /\ apiCall.before # NoTenant
  /\ apiCall.value # apiCall.before
  /\ apiCall.value.id # apiCall.before.id
  /\ apiCall.error = ERR_ALREADY_SET
  /\ tenantInfo[ContextOf(apiCall.unit)] = apiCall.before

\* C20 - reads of an unset context: called on a context that holds no
\* descriptor, getTenant throws UnauthorizedException 'Tenant context not
\* set' and returns nothing, getTenantIdSafe and getTenantSubdomainSafe
\* return null and throw nothing, and the context is the same after the
\* call as before it.
C20_ReadsOfUnsetContext ==
  [][\A op \in {"getTenant", "getTenantIdSafe", "getTenantSubdomainSafe"} :
       (HandlerCalls(op) /\ tenantInfo[ContextOf(apiCall'.unit)] = NoTenant)
         => /\ tenantInfo' = tenantInfo
            /\ op = "getTenant" =>
                 /\ apiCall'.error = UNAUTH_NO_CONTEXT
                 /\ apiCall'.value = NoTenant
            /\ op # "getTenant" =>
                 /\ apiCall'.error = Undefined
                 /\ apiCall'.text = Null]_vars

\* getTenant was called, and threw, on a context that had been set by the
\* interceptor and cleared by the handler
C20_Witness ==
  /\ apiCall.op = "getTenant"
  /\ apiCall.before = NoTenant
  /\ apiCall.error = UNAUTH_NO_CONTEXT
  /\ setBy[apiCall.unit] # NoTenant
  /\ tenantInfo[ContextOf(apiCall.unit)] = NoTenant

\* ======================================================================
\* Claims about the exception filter (SpecFilter)
\* ======================================================================

\* C21 - HttpExceptionFilter output: whatever value catch was given, the
\* status set on the reply is the status field of the body and the title
\* is getHttpStatusTitle of that status; for an HTTP exception it is the
\* exception's own status; for any other value the status is 500 and the
\* detail is 'An unexpected error occurred', not the error's message.
C21_FilterOutput ==
  thrown # NoThrown =>
    /\ reply.status = reply.body.status
    /\ reply.body.title = getHttpStatusTitle(reply.status)
    /\ thrown.http => reply.status = thrown.status
    /\ ~thrown.http =>
         /\ reply.status = 500
         /\ reply.body.detail = Text("An unexpected error occurred")
         /\ reply.body.detail # Text(thrown.message)

\* an Error that carries a status and a telling message was caught and
\* answered with the generic 500 problem
C21_Witness ==
  /\ ~thrown.http /\ thrown.isError
  /\ thrown.status = 404
  /\ thrown.message = "password=hunter2"
  /\ reply.status = 500
  /\ reply.body.title = <<"Internal", "Server", "Error">>
  /\ reply.body.detail = Text("An unexpected error occurred")
  /\ reply.body.type = "about:blank"
  /\ reply.body.errors = <<>>

\* ======================================================================
\* Claims about pools being closed (SpecSweep)
\* ======================================================================

\* getDbClient of instance s finds the entry k in this step: it stamps the
\* entry with the present time and returns the handle of its pool
ReturnsCached(s, k) ==
  /\ k \in DOMAIN clients[s] /\ k \in DOMAIN clients'[s]
  /\ clientLastUsed'[s][k] # clientLastUsed[s][k]

\* C22 - no handle to a closed pool: when a read of drizzleClient returns
\* the handle of a cached pool, pool.end() has not been invoked on that pool,
\* neither by a sweep that is still awaiting the close nor by shutdown.
C22_NoHandleToClosedPool ==
  [][\A s \in Units : \A k \in DOMAIN clients[s] :
       ReturnsCached(s, k) =>
         /\ ~pools[clients[s][k]].ended
         /\ endCalls[clients[s][k]] = 0]_vars

\* a run of cleanupIdleConnections of instance s takes a step: it starts,
\* or it resumes after an awaited close
SweepActs(s) == sweep'[s] # sweep[s]

\* C23 - the sweep is joined at shutdown: once onModuleDestroy of an
\* instance has returned, no run of its sweep, started before or after,
\* takes another step, so none invokes pool.end() or deletes a cache entry.
C23_SweepJoinedAtShutdown ==
  [][\A s \in Units :
       shutdown[s].pc = "destroyed" =>
         /\ ~SweepActs(s)
         /\ ~SweepRemoves(s)]_vars

\* C24 - close at most once: over the life of a pool, pool.end() is invoked
\* on it at most once, whatever sweeps and shutdown do.
C24_CloseAtMostOnce ==
  \A p \in DOMAIN pools : endCalls[p] <= 1

\* C25 - no pool leak: a pool that is no longer in the cache of its
\* instance has had pool.end() invoked on it, and when onModuleDestroy
\* returns pool.end() has been invoked on every pool that is in the cache of
\* the instance, whatever reads and sweeps were interleaved with it.
C25_NoPoolLeak ==
  /\ [](\A p \in DOMAIN pools :
          p \notin Cached(clients[pools[p].owner]) => endCalls[p] >= 1)
  /\ [][\A s \in Units :
          DestroyReturns(s) =>
            \A p \in Cached(clients'[s]) : endCalls'[p] >= 1]_vars

\* ======================================================================
\* Claims about the interceptors and the guard
\* ======================================================================

\* an interceptor finishes establishing the context of unit u in this step
\* and calls setTenant on a context that is already set: the message of an
\* RPC unit carries payload.tenant, an HTTP unit has resolved an ACTIVE
\* descriptor
SetTenantOnSetContext(u) ==
  /\ pc[u] \in {"idle", "querying"}
  /\ pc'[u] \in {"handler", "failed"}
  /\ tenantInfo[ContextOf(u)] # NoTenant
  /\ \/ kind'[u] = "rpc" /\ resolved'[u] # NoTenant
     \/ /\ kind'[u] = "http"
        /\ resolved'[u] \notin {NoTenant, NullInfo}
        /\ resolved'[u].status = "ACTIVE"

\* C26 - set-twice violations fail loudly: when an interceptor's setTenant
\* throws because the context of the unit is already set, the unit fails
\* with that error and next.handle() is not invoked for it.
C26_SetTwiceFailsLoudly ==
  [][\A u \in Units :
       SetTenantOnSetContext(u) =>
         /\ pc'[u] = "failed"
         /\ outcome'[u] = ERR_ALREADY_SET
         /\ ~handlerRan'[u]]_vars

\* ------------------------------------------------ reserved identifier
\* canActivate runs for unit u in this step
GuardRuns(u) ==
  /\ pc[u] = "idle" /\ pc'[u] # "idle"
  /\ guard'[u] # NoGuard

\* intercept() starts for unit u in this step
InterceptorRuns(u) ==
  \/ pc[u] = "guarded" /\ pc'[u] # "guarded"
  \/ pc[u] = "idle" /\ pc'[u] # "idle" /\ kind'[u] = "http" /\ guard'[u] = NoGuard

\* the step touches neither the registry nor the resolution cache, the
\* context of u or any pool
NoTenantWork(u) ==
  /\ pc'[u] \notin {"querying", "guard querying"}
  /\ guard'[u].lookup = "none"
  /\ UNCHANGED <<tenantConfigCache, timers, resolved, cacheHit, fetchedAt>>
  /\ tenantInfo'[ContextOf(u)] = NoTenant
  /\ UNCHANGED <<clients, clientLastUsed, pools>>

\* the guard's checks of endpoint and token let the request pass
Authenticated(g) == g.isPublic \/ AuthError(g.isOnboarding, g.token) = Undefined

\* C27 - reserved identifier bypass, as far as it holds: for a request whose
\* identifier is 'cloud', neither the guard nor the interceptor queries the
\* registry or touches the resolution cache, the tenant context stays unset
\* and no pool is looked up or created; the interceptor invokes the handler,
\* and the guard lets the request through if the endpoint is public or the
\* token passes the guard's authentication checks.
C27_ReservedBypassWhenAuthenticated ==
  [][\A u \in Units : ident'[u] = RESERVED =>
       /\ GuardRuns(u) =>
            /\ NoTenantWork(u)
            /\ Authenticated(guard'[u]) => pc'[u] = "guarded"
       /\ InterceptorRuns(u) =>
            /\ NoTenantWork(u)
            /\ pc'[u] = "handler" /\ handlerRan'[u]]_vars

\* a 'cloud' request with a valid access token on a regular endpoint has
\* passed guard and interceptor: its handler runs without a tenant context
\* while the cache holds another tenant's entry
C27_Witness ==
  \E u \in Units :
    /\ ident[u] = RESERVED /\ pc[u] = "handler" /\ handlerRan[u]
    /\ guard[u] = [isPublic |-> FALSE, isOnboarding |-> FALSE,
                   token |-> "access", lookup |-> "none"]
    /\ tenantInfo[ContextOf(u)] = NoTenant /\ resolved[u] = NoTenant
    /\ tenantConfigCache # Empty

\* C27 as stated: a 'cloud' request always reaches its handler, whatever
\* the guard finds in the request
C27_ReservedAlwaysReachesHandler ==
  [][\A u \in Units : ident'[u] = RESERVED =>
       /\ GuardRuns(u) => NoTenantWork(u) /\ pc'[u] = "guarded"
       /\ InterceptorRuns(u) =>
            /\ NoTenantWork(u)
            /\ pc'[u] = "handler" /\ handlerRan'[u]]_vars

\* ------------------------------------------------- failed closes in a sweep
\* C28 - eviction failures are swallowed: once the close of a pool has
\* failed in a run of cleanupIdleConnections, neither that run nor a later
\* one rejects, and the interval timer stays as it was; the run removes the
\* pool whose close failed from both maps and goes on, so that when it
\* finishes no entry is left that was idle when the run started.
C28_EvictionFailuresSwallowed ==
  [][\A s \in Units :
       (sweep'[s] # sweep[s] /\ sweep'[s].failed # {}) =>
         /\ ~sweep'[s].rejected
         /\ cleanupInterval'[s] = cleanupInterval[s]
         /\ \A p \in sweep'[s].failed : p \notin Cached(clients'[s])
         /\ SweepFinishes(s) =>
              /\ DOMAIN clients'[s] = DOMAIN clientLastUsed'[s]
              /\ \A k \in DOMAIN clientLastUsed'[s] :
                   ~IsIdle(sweep'[s].at, clientLastUsed'[s][k])]_vars

\* two runs have started; the close of one idle pool failed, a pool built
\* after it was closed by the same run or by the later one, the run has
\* finished with the cache empty and the timer is still armed
C28_Witness ==
  \E s \in Units :
    /\ sweep[s].pc = "idle" /\ ~sweep[s].rejected
    /\ \E p \in sweep[s].failed : \E q \in sweep[s].ended \ sweep[s].failed : p < q
    /\ clients[s] = Empty
    /\ cleanupInterval[s] /\ shutdown[s].pc = "running"
    /\ sweeps = MaxSweeps

\* ------------------------------------------- pool and descriptor parameters
\* the fields of a descriptor that buildTenantDbUrl puts into the connection
\* string of a new pool (of those the descriptors of the model carry)
ConnectionParams(tenant) ==
  <<tenant.databaseHost, tenant.databaseName, tenant.databaseUsername>>

\* C29 - the pool matches the descriptor: when a read of drizzleClient
\* returns a handle for the descriptor bound to the context, the pool behind
\* the handle was built from the connection parameters of that descriptor.
C29_PoolMatchesDescriptor ==
  \A u \in Units :
    GotHandle(u) =>
      ConnectionParams(pools[lastRead[u].pool].builtFrom)
        = ConnectionParams(lastGot[u])

\* ------------------------------------------------ the two keys of an entry
\* C30 - dual-key cache invariant: over a registry with unique ids and
\* subdomains whose rows do not change, a tenant's id is a key of the
\* resolution cache exactly if its subdomain is, and every key of the cache
\* maps to a descriptor whose id or subdomain is that key.
C30_DualKeyInvariant ==
  /\ \A t \in TenantIds :
       t \in DOMAIN tenantConfigCache
         <=> registry[t].subdomain \in DOMAIN tenantConfigCache
  /\ \A k \in DOMAIN tenantConfigCache :
       k \in {tenantConfigCache[k].id, tenantConfigCache[k].subdomain}

\* two tenants were cached, each under both keys; the entry of one has been
\* invalidated through one of its keys while a timer of it is still pending,
\* and the other tenant is still cached under both keys
C30_Witness ==
  /\ cleared # NoTenant
  /\ CacheKeys(cleared) \cap DOMAIN tenantConfigCache = {}
  /\ \E tm \in timers : tm.id = cleared.id
  /\ \E t \in TenantIds \ {cleared.id} :
       {t, registry[t].subdomain} \subseteq DOMAIN tenantConfigCache

====
